---- MODULE Spec2Model ----
(***************************************************************************)
(* Food detection Streamlit application: the model provider (load_model,   *)
(* memoised by st.cache_resource), the detection normaliser                *)
(* (process_image) and the script main(), which the framework reruns from  *)
(* top to bottom on every user interaction.                                *)
(*                                                                         *)
(* Python values are modelled as records: None is the record None below,   *)
(* a dict is a record with the dict's keys, a model handle is the record   *)
(* [weights |-> <the path it was built from>].                             *)
(***************************************************************************)
EXTENDS Integers, Sequences, FiniteSets, TLC

VARIABLES
    fsExists,           \* paths p of the working directory with os.path.exists(p)
    cache,              \* the st.cache_resource entry of load_model
    uploaded_file,      \* st.session_state.uploaded_file
    processed_results,  \* st.session_state.processed_results
    upload_key,         \* st.session_state.upload_key
    upload_method,      \* widget "upload_method_selector"
    url_input,          \* widget "url_input": a sequence of characters
    file_widget,        \* widget "file_uploader_<upload_key>"
    camera_widget,      \* widget "camera_uploader_<upload_key>"
    uploaded_model,     \* widget "model_uploader"
    rendered,           \* the buttons the last complete run put on the page
    rerunPending,       \* st.rerun() was called: the script runs again at once
    run,                \* trace of the last script run
    sinceClear,         \* history: last process_image result since the last clear
    held,               \* values the browser still shows for widgets whose state a rerun dropped
    awaitingImage,      \* history: Clear Upload was pressed and no image supplied since
    fn                  \* a single call of load_model or process_image (SpecLoad, SpecNorm)

vars == <<fsExists, cache, uploaded_file, processed_results, upload_key,
          upload_method, url_input, file_widget, camera_widget, uploaded_model,
          rendered, rerunPending, run, sinceClear, held, awaitingImage, fn>>

None == [py |-> "None"]

(***************************************************************************)
(* Bounds of the model.                                                    *)
(***************************************************************************)
MaxClassId == 12     \* class ids 0..MaxClassId are reported by the model
MaxResults == 2      \* results per inference call
MaxBoxes == 2        \* boxes per result
MaxKey == 2          \* Clear Upload is pressed at most MaxKey times

(***************************************************************************)
(* Program constants.                                                      *)
(***************************************************************************)
FOOD_CLASSES ==
    << "Apple Pie", "Chocolate", "French Fries", "Hotdog", "Nachos",
       "Pizza", "onion_rings", "pancakes", "spring_rolls", "tacos" >>

possible_paths ==
    << "runs/detect/yolov8n_food101/weights/best.pt",
       "best.pt",
       "model.pt",
       "yolov8n_food101.pt",
       "food_detection_model.pt" >>

FallbackWeights == "yolov8n.pt"

coco_food_mapping ==
    [k \in {0, 1, 2, 3} |->
        CASE k = 0 -> "Person" [] k = 1 -> "Bicycle" [] k = 2 -> "Car" [] k = 3 -> "Motorcycle"]

HttpOk == 200

Range(s) == {s[i] : i \in DOMAIN s}

SeqsUpTo(S, n) == UNION {[1..k -> S] : k \in 0..n}

(***************************************************************************)
(* load_model (body, without the cache).  exists is the set of paths that  *)
(* exist, good the set of weight files YOLO() can construct a model from,  *)
(* fbOK whether YOLO("yolov8n.pt") succeeds.  The result carries the       *)
(* returned value and the log of the filesystem checks, constructions and  *)
(* messages, in the order the body performs them.                          *)
(***************************************************************************)
Handle(p) == [weights |-> p]

PathExists_Always(p, exists) == TRUE

\* os.path.exists(model_path)
PathExists(p, exists) == p \in exists

\* The loop "for model_path in possible_paths", from its i-th iteration on.
RECURSIVE TryPaths(_, _, _, _)
TryPaths(i, exists, good, log) ==
    IF i > Len(possible_paths)
    THEN [model |-> None, loaded_path |-> None, log |-> log]
    ELSE LET p == possible_paths[i]
             found == PathExists(p, exists)
             chk == <<[ev |-> "exists", path |-> p, ret |-> found]>> IN
         IF found
         THEN IF p \in good
              THEN [model |-> Handle(p), loaded_path |-> p,
                    log |-> log \o chk \o <<[ev |-> "YOLO", path |-> p, ok |-> TRUE]>>]
              ELSE TryPaths(i + 1, exists, good,
                            log \o chk \o <<[ev |-> "YOLO", path |-> p, ok |-> FALSE],
                                            [ev |-> "warning", path |-> p]>>)
         ELSE TryPaths(i + 1, exists, good, log \o chk)

load_model(exists, good, fbOK) ==
    LET r == TryPaths(1, exists, good, <<>>) IN
    IF r.model # None
    THEN [ret |-> r.model,
          log |-> r.log \o <<[ev |-> "success", path |-> r.loaded_path]>>]
    ELSE LET l == r.log \o <<[ev |-> "warning_default"], [ev |-> "info"],
                             [ev |-> "YOLO", path |-> FallbackWeights, ok |-> fbOK]>> IN
         IF fbOK
         THEN [ret |-> Handle(FallbackWeights), log |-> l]
         ELSE [ret |-> None, log |-> l \o <<[ev |-> "error"]>>]

(***************************************************************************)
(* process_image.  The behaviour of the external model on one call,        *)
(* model(image), is an outcome chosen by the environment: [raise |-> m]    *)
(* when the call raises an exception with message m, [results |-> rs]      *)
(* when it returns; an element of rs is [boxes |-> None],                  *)
(* [boxes |-> [data |-> bs]] (a Boxes object over the sequence bs) or      *)
(* [raise |-> m] (reading it raises).  A box is                            *)
(* [xyxy |-> corners in tenths of a pixel, conf |-> confidence in          *)
(* millionths, cls |-> class id].                                          *)
(***************************************************************************)
Digit(d) ==
    CASE d = 0 -> "0" [] d = 1 -> "1" [] d = 2 -> "2" [] d = 3 -> "3" [] d = 4 -> "4"
      [] d = 5 -> "5" [] d = 6 -> "6" [] d = 7 -> "7" [] d = 8 -> "8" [] d = 9 -> "9"

\* The decimal text of a natural number, as the f-string formats class_id.
RECURSIVE IntStr(_)
IntStr(n) == IF n < 10 THEN Digit(n) ELSE IntStr(n \div 10) \o Digit(n % 10)

\* dict.get(k, default)
DictGet(d, k, default) == IF k \in DOMAIN d THEN d[k] ELSE default

ClassName_MappingFirst(class_id) ==
    IF class_id \in DOMAIN coco_food_mapping
    THEN coco_food_mapping[class_id]
    ELSE IF class_id < Len(FOOD_CLASSES)
         THEN FOOD_CLASSES[class_id + 1]
         ELSE "Object_" \o IntStr(class_id)

\* Lines 95-103, for class_id >= 0 (Python lists are 0-based, sequences 1-based).
ClassName(class_id) ==
    IF class_id < Len(FOOD_CLASSES)
    THEN FOOD_CLASSES[class_id + 1]
    ELSE DictGet(coco_food_mapping, class_id, "Object_" \o IntStr(class_id))

\* int(x): truncation toward zero of a coordinate given in tenths.
Trunc(t) == IF t >= 0 THEN t \div 10 ELSE -((-t) \div 10)

\* round(confidence * 100, 2) of a confidence given in millionths; the result
\* is in hundredths of a percent, ties to even.
Round2(c) ==
    LET q == c \div 100
        r == c % 100
    IN IF r > 50 \/ (r = 50 /\ q % 2 = 1) THEN q + 1 ELSE q

Detection(box) ==
    [class_name |-> ClassName(box.cls),
     confidence |-> Round2(box.conf),
     bbox |-> <<Trunc(box.xyxy[1]), Trunc(box.xyxy[2]), Trunc(box.xyxy[3]), Trunc(box.xyxy[4])>>]

AppendBoxes_Reversed(detections, boxes) ==
    detections \o [i \in 1..Len(boxes) |-> Detection(boxes[Len(boxes) + 1 - i])]

\* "for box in boxes: ... detections.append({...})"
AppendBoxes(detections, boxes) ==
    detections \o [i \in 1..Len(boxes) |-> Detection(boxes[i])]

\* "for result in results", with the detections gathered so far.
RECURSIVE Traverse(_, _)
Traverse(results, detections) ==
    IF results = <<>>
    THEN [detections |-> detections]
    ELSE LET result == Head(results) IN
         IF "raise" \in DOMAIN result
         THEN [raise |-> result.raise]
         ELSE IF result.boxes # None
              THEN Traverse(Tail(results), AppendBoxes(detections, result.boxes.data))
              ELSE Traverse(Tail(results), detections)

ModelMissing_Never(model) == FALSE

\* "if model is None"
ModelMissing(model) == model = None

Infer_Retry(image, outcome) ==
    IF "raise" \in DOMAIN outcome THEN <<image, image>> ELSE <<image>>

\* "results = model(image)": the images the model handle is invoked on.
Infer(image, outcome) == <<image>>

ErrorResult_NoMessage(m) == [error |-> "Error processing image"]

\* The except clause: {"error": f"Error processing image: {str(e)}"}
ErrorResult(m) == [error |-> "Error processing image: " \o m]

\* The value returned (ret) and the invocations of the model handle (infer).
process_image(image, model, outcome) ==
    IF ModelMissing(model)
    THEN [ret |-> [error |-> "Model not loaded"], infer |-> <<>>]
    ELSE LET calls == Infer(image, outcome) IN
         IF "raise" \in DOMAIN outcome
         THEN [ret |-> ErrorResult(outcome.raise), infer |-> calls]
         ELSE LET t == Traverse(outcome.results, <<>>) IN
              IF "raise" \in DOMAIN t
              THEN [ret |-> ErrorResult(t.raise), infer |-> calls]
              ELSE [ret |-> [success |-> TRUE,
                             detections |-> t.detections,
                             total_detections |-> Len(t.detections)],
                    infer |-> calls]

(***************************************************************************)
(* Inputs of the single-call specifications.                               *)
(***************************************************************************)
ClassBox(c) == [xyxy |-> <<102, 209, 1104, 2201>>, conf |-> 913000, cls |-> c]

SampleBoxes ==
    { ClassBox(5),
      [xyxy |-> <<49, 0, 3999, 59>>, conf |-> 867549, cls |-> 5],
      [xyxy |-> <<7, 15, 999, 1000>>, conf |-> 500049, cls |-> 11] }

Messages == {"CUDA out of memory", "index 0 is out of bounds"}

ResultItems ==
    {[boxes |-> None]}
      \cup {[boxes |-> [data |-> bs]] : bs \in SeqsUpTo(SampleBoxes, MaxBoxes)}
      \cup {[raise |-> m] : m \in Messages}

Outcomes ==
    {[raise |-> m] : m \in Messages}
      \cup {[results |-> rs] : rs \in SeqsUpTo(ResultItems, MaxResults)}
      \cup {[results |-> <<[boxes |-> [data |-> <<ClassBox(c)>>]]>>] : c \in 0..MaxClassId}

\* The behaviours of the model exercised by the application runs.
AppOutcomes ==
    { [raise |-> "CUDA out of memory"],
      [results |-> <<[raise |-> "index 0 is out of bounds"]>>],
      [results |-> <<[boxes |-> [data |-> <<ClassBox(5)>>]], [raise |-> "bad tensor"]>>],
      [results |-> <<>>],
      [results |-> <<[boxes |-> [data |-> <<ClassBox(5)>>]]>>] }

(***************************************************************************)
(* State of the application before its first run.                          *)
(***************************************************************************)
NoRun ==
    [pc |-> "none", detect |-> FALSE, clear |-> FALSE, model |-> None, loadLog |-> <<>>,
     fetch |-> <<>>, errors |-> <<>>, calls |-> <<>>]

AppStart ==
    /\ cache = [hit |-> FALSE]
    /\ uploaded_file = None
    /\ processed_results = None
    /\ upload_key = 0
    /\ upload_method = "URL Upload (Recommended)"
    /\ url_input = <<>>
    /\ file_widget = None
    /\ camera_widget = None
    /\ uploaded_model = None
    /\ rendered = {}
    /\ rerunPending = FALSE
    /\ run = NoRun
    /\ sinceClear = None
    /\ held = None
    /\ awaitingImage = FALSE

appVars == <<fsExists, cache, uploaded_file, processed_results, upload_key,
             upload_method, url_input, file_widget, camera_widget, uploaded_model,
             rendered, rerunPending, run, sinceClear, held, awaitingImage>>

(***************************************************************************)
(* SpecLoad: one call of the body of load_model on every combination of    *)
(* existing files and construction outcomes.                               *)
(***************************************************************************)
Candidates == Range(possible_paths)

InitLoad ==
    /\ AppStart
    /\ fsExists \in SUBSET Candidates
    /\ \E good \in SUBSET Candidates, fbOK \in BOOLEAN :
          fn = [op |-> "load_model", pc |-> "called", good |-> good, fbOK |-> fbOK]

LoadCall ==
    /\ fn.pc = "called"
    /\ LET r == load_model(fsExists, fn.good, fn.fbOK) IN
          fn' = [fn EXCEPT !.pc = "returned"] @@ [ret |-> r.ret, log |-> r.log]
    /\ UNCHANGED appVars

NextLoad == LoadCall

SpecLoad == InitLoad /\ [][NextLoad]_vars

(***************************************************************************)
(* SpecNorm: one call of process_image on every handle and outcome.        *)
(***************************************************************************)
InitNorm ==
    /\ AppStart
    /\ fsExists = {}
    /\ \E model \in {None, Handle("best.pt")}, outcome \in Outcomes :
          fn = [op |-> "process_image", pc |-> "called", image |-> [pixels |-> "image"],
                model |-> model, outcome |-> outcome]

NormCall ==
    /\ fn.pc = "called"
    /\ LET r == process_image(fn.image, fn.model, fn.outcome) IN
          fn' = [fn EXCEPT !.pc = "returned"] @@ [ret |-> r.ret, infer |-> r.infer]
    /\ UNCHANGED appVars

NextNorm == NormCall

SpecNorm == InitNorm /\ [][NextNorm]_vars

(***************************************************************************)
(* main(): one run of the script.  The framework runs it on page load and  *)
(* after every widget interaction, with the values of all widgets as the   *)
(* browser holds them; a button is True only in the run its press          *)
(* triggers.  Widgets that a complete run does not put on the page lose    *)
(* their value.  After a run stopped by st.rerun() the widgets that run    *)
(* did not reach (the method selector and the URL field come after the     *)
(* Clear Upload button) either keep their value for the rerun, or the      *)
(* rerun sees their defaults while the browser goes on showing the old     *)
(* values and sends them with the next interaction: the framework version  *)
(* decides, so the model allows both.                                      *)
(***************************************************************************)
URL == "URL Upload (Recommended)"

FILE == "File Upload"

CAMERA == "Camera Upload"

Methods == {URL, FILE, CAMERA}

\* Texts of the URL field: empty, blank, and a URL typed with spaces around it.
UrlTexts == { <<>>, <<" ">>, <<" ", "u", " ">> }

\* str.strip() on a sequence of characters
RECURSIVE LStrip(_)
LStrip(s) == IF s # <<>> /\ Head(s) = " " THEN LStrip(Tail(s)) ELSE s

RECURSIVE RStrip(_)
RStrip(s) == IF s # <<>> /\ s[Len(s)] = " " THEN RStrip(SubSeq(s, 1, Len(s) - 1)) ELSE s

Strip(s) == RStrip(LStrip(s))

\* Truth value of a Python string
Truthy(s) == s # <<>>

\* What requests.get(image_url, timeout=10) can do.
Responses ==
    { [status_code |-> 200, content |-> "url_image"],
      [status_code |-> 200, content |-> "corrupt"],
      [status_code |-> 404],
      [status_code |-> 503],
      [raise |-> "Read timed out"] }

NoResponse == [none |-> TRUE]

NoCall == [ret |-> None, infer |-> <<>>]

FileChoices ==
    { [name |-> "photo.jpg", data |-> "file_image"],
      [name |-> "broken.jpg", data |-> "corrupt"] }

CameraChoices == { [name |-> "camera.jpg", data |-> "camera_image"] }

ModelUploads == { [name |-> "best.pt"], [name |-> "custom.pt"] }

\* Image.open(...): raises on bytes that are no image.
ImageOpen(data) ==
    IF data = "corrupt"
    THEN [raise |-> "cannot identify image file"]
    ELSE [image |-> [pixels |-> data]]

\* The MockFile built from the PNG re-encoding of the fetched image.
MockFile(content) == [name |-> "image_from_url.png", data |-> content]

NoUpload(errors) == [image |-> None, uploaded_file |-> None, errors |-> errors]

\* Lines 232-304: the locals image and uploaded_file and the errors shown.
Upload(m, url, fw, cw, resp) ==
    IF m = URL
    THEN IF Truthy(url) /\ Truthy(Strip(url))
         THEN IF "raise" \in DOMAIN resp
              THEN NoUpload(<<"Error loading image from URL: " \o resp.raise>>)
              ELSE IF resp.status_code = HttpOk
                   THEN LET im == ImageOpen(resp.content) IN
                        IF "raise" \in DOMAIN im
                        THEN NoUpload(<<"Error loading image from URL: " \o im.raise>>)
                        ELSE [image |-> im.image, uploaded_file |-> MockFile(resp.content),
                              errors |-> <<>>]
                   ELSE NoUpload(<<"Failed to load image from URL (Status: "
                                     \o IntStr(resp.status_code) \o ")">>)
         ELSE NoUpload(<<>>)
    ELSE IF m = FILE
         THEN IF fw # None
              THEN LET im == ImageOpen(fw.data) IN
                   IF "raise" \in DOMAIN im
                   THEN [image |-> None, uploaded_file |-> fw,
                         errors |-> <<"File upload error: " \o im.raise>>]
                   ELSE [image |-> im.image, uploaded_file |-> fw, errors |-> <<>>]
              ELSE NoUpload(<<>>)
         ELSE IF cw # None
              THEN LET im == ImageOpen(cw.data) IN
                   IF "raise" \in DOMAIN im
                   THEN [image |-> None, uploaded_file |-> cw,
                         errors |-> <<"Camera error: " \o im.raise>>]
                   ELSE [image |-> im.image, uploaded_file |-> cw, errors |-> <<>>]
              ELSE NoUpload(<<>>)

\* Lines 306-442: which image the Detect button, if any, is offered for.
\* Branch 1 is "if image is not None and uploaded_file is not None", branch 2
\* is "elif st.session_state.uploaded_file is not None".
Offer(up, stored) ==
    IF up.image # None /\ up.uploaded_file # None
    THEN [branch |-> 1, button |-> TRUE, image |-> up.image, errors |-> <<>>]
    ELSE IF stored # None
         THEN LET im == ImageOpen(stored.data) IN
              IF "raise" \in DOMAIN im
              THEN [branch |-> 2, button |-> FALSE, image |-> None,
                    errors |-> <<"Error loading image: " \o im.raise>>]
              ELSE [branch |-> 2, button |-> TRUE, image |-> im.image, errors |-> <<>>]
         ELSE [branch |-> 0, button |-> FALSE, image |-> None, errors |-> <<>>]

CacheHit_Never(c) == FALSE

\* st.cache_resource: is there an entry for load_model()?
CacheHit(c) == c.hit

\* The calls of load_model() the environment allows: the cached value, or the
\* body run on the working directory with some construction outcomes.
LoadResults ==
    IF CacheHit(cache)
    THEN {[ret |-> cache.value, log |-> <<>>]}
    ELSE {load_model(fsExists, good, fbOK) : good \in SUBSET fsExists, fbOK \in BOOLEAN}

ModelIsNone_Never(model) == FALSE

\* "if model is None" in main()
ModelIsNone(model) == model = None

ClearedResults_Keep(r) == r

\* "st.session_state.processed_results = None" of the Clear Upload handler
ClearedResults(r) == None

\* Lines 197-201: the uploaded model is written under its own name.
WriteModel(um) == IF um # None THEN fsExists \cup {um.name} ELSE fsExists

\* Lines 332-371: the messages shown for a result.
ResultErrors(results) ==
    IF "success" \in DOMAIN results /\ results.success
    THEN <<>>
    ELSE <<"Error: " \o DictGet(results, "error", "Unknown error")>>

Script(m, url, fw, cw, um, clear, detect) ==
    \E ld \in LoadResults :
      LET model == ld.ret
          base == [NoRun EXCEPT !.model = model, !.loadLog = ld.log,
                                !.detect = detect, !.clear = clear]
      IN
      /\ cache' = [hit |-> TRUE, value |-> model]
      /\ fn' = fn
      /\ IF ModelIsNone(model)
         THEN \* lines 178-180: error, return; no widget is on the page
              /\ run' = [base EXCEPT !.pc = "halted",
                            !.errors = <<"Failed to load the model. Please check the model file.">>]
              /\ upload_method' = URL
              /\ url_input' = <<>>
              /\ file_widget' = None
              /\ camera_widget' = None
              /\ uploaded_model' = None
              /\ rendered' = {}
              /\ rerunPending' = FALSE
              /\ UNCHANGED <<fsExists, uploaded_file, processed_results, upload_key, sinceClear>>
         ELSE IF clear
         THEN \* lines 218-222: reset the session state and st.rerun()
              /\ run' = [base EXCEPT !.pc = "rerun"]
              /\ fsExists' = WriteModel(um)
              /\ uploaded_file' = None
              /\ processed_results' = ClearedResults(processed_results)
              /\ upload_key' = upload_key + 1
              /\ sinceClear' = None
              /\ upload_method' = m
              /\ url_input' = url
              /\ file_widget' = None      \* the widgets keyed by the new upload_key
              /\ camera_widget' = None
              /\ uploaded_model' = um
              /\ rendered' = {}
              /\ rerunPending' = TRUE
         ELSE \E resp \in (IF m = URL /\ Truthy(url) /\ Truthy(Strip(url))
                           THEN Responses ELSE {NoResponse}) :
              \E up \in {Upload(m, url, fw, cw, resp)} :
              \E of \in {Offer(up, uploaded_file)} :
              \E pressed \in {detect /\ of.button} :
              \E outcome \in (IF pressed THEN AppOutcomes ELSE {NoResponse}) :
              \E r \in {IF pressed THEN process_image(of.image, model, outcome) ELSE NoCall} :
                 LET call == [model |-> model, image |-> of.image, outcome |-> outcome,
                              ret |-> r.ret, infer |-> r.infer]
                 IN
                 /\ run' = [base EXCEPT
                               !.pc = "done",
                               !.fetch = IF resp = NoResponse THEN <<>> ELSE <<resp>>,
                               !.errors = up.errors \o of.errors
                                            \o (IF pressed THEN ResultErrors(r.ret) ELSE <<>>),
                               !.calls = IF pressed THEN <<call>> ELSE <<>>]
                 /\ fsExists' = WriteModel(um)
                 /\ uploaded_file' = IF of.branch = 1 THEN up.uploaded_file ELSE uploaded_file
                 /\ processed_results' = IF pressed THEN r.ret ELSE processed_results
                 /\ sinceClear' = IF pressed THEN r.ret ELSE sinceClear
                 /\ upload_key' = upload_key
                 /\ upload_method' = m
                 /\ url_input' = IF m = URL THEN url ELSE <<>>
                 /\ file_widget' = IF m = FILE THEN fw ELSE None
                 /\ camera_widget' = IF m = CAMERA THEN cw ELSE None
                 /\ uploaded_model' = um
                 /\ rendered' = {"clear"} \cup (IF of.button THEN {"detect"} ELSE {})
                 /\ rerunPending' = FALSE

\* The values of the method selector and of the URL field in the browser.
CurMethod == IF held # None THEN held.upload_method ELSE upload_method

CurUrl == IF held # None THEN held.url_input ELSE url_input

\* The script runs with the widgets as the browser holds them.
Rerun(clear, detect) ==
    Script(CurMethod, CurUrl, file_widget, camera_widget, uploaded_model, clear, detect)

(***************************************************************************)
(* The interactions.                                                       *)
(***************************************************************************)
\* Page load, or a rerun asked for from the browser.
PlainRun ==
    /\ ~rerunPending
    /\ Rerun(FALSE, FALSE)
    /\ held' = None
    /\ awaitingImage' = awaitingImage

\* The run that st.rerun() asked for: it sees the selector and the URL field as
\* they were, or their defaults while the browser keeps the old values.
ScriptRerun ==
    /\ rerunPending
    /\ awaitingImage' = awaitingImage
    /\ \E kept \in BOOLEAN :
          IF kept
          THEN Rerun(FALSE, FALSE) /\ held' = None
          ELSE /\ upload_method # URL \/ url_input # <<>>
               /\ Script(URL, <<>>, file_widget, camera_widget, uploaded_model, FALSE, FALSE)
               /\ held' = [upload_method |-> upload_method, url_input |-> url_input]

SelectMethod ==
    /\ ~rerunPending /\ "clear" \in rendered
    /\ \E m \in Methods \ {CurMethod} :
          Script(m, CurUrl, file_widget, camera_widget, uploaded_model, FALSE, FALSE)
    /\ held' = None
    /\ awaitingImage' = awaitingImage

EnterUrl ==
    /\ ~rerunPending /\ "clear" \in rendered /\ upload_method = URL
    /\ \E url \in UrlTexts \ {CurUrl} :
          /\ Script(CurMethod, url, file_widget, camera_widget, uploaded_model, FALSE, FALSE)
          /\ awaitingImage' = (awaitingImage /\ ~Truthy(Strip(url)))
    /\ held' = None

ChooseFile ==
    /\ ~rerunPending /\ "clear" \in rendered /\ upload_method = FILE
    /\ \E fw \in (FileChoices \cup {None}) \ {file_widget} :
          /\ Script(CurMethod, CurUrl, fw, camera_widget, uploaded_model, FALSE, FALSE)
          /\ awaitingImage' = (awaitingImage /\ fw = None)
    /\ held' = None

TakePhoto ==
    /\ ~rerunPending /\ "clear" \in rendered /\ upload_method = CAMERA
    /\ \E cw \in (CameraChoices \cup {None}) \ {camera_widget} :
          /\ Script(CurMethod, CurUrl, file_widget, cw, uploaded_model, FALSE, FALSE)
          /\ awaitingImage' = (awaitingImage /\ cw = None)
    /\ held' = None

UploadModel ==
    /\ ~rerunPending /\ "clear" \in rendered
    /\ \E um \in (ModelUploads \cup {None}) \ {uploaded_model} :
          Script(CurMethod, CurUrl, file_widget, camera_widget, um, FALSE, FALSE)
    /\ held' = None
    /\ awaitingImage' = awaitingImage

PressDetect ==
    /\ ~rerunPending /\ "detect" \in rendered
    /\ Rerun(FALSE, TRUE)
    /\ held' = None
    /\ awaitingImage' = awaitingImage

PressClear ==
    /\ ~rerunPending /\ "clear" \in rendered /\ upload_key < MaxKey
    /\ Rerun(TRUE, FALSE)
    /\ held' = None
    /\ awaitingImage' = TRUE

AppFiles == {possible_paths[2], possible_paths[3]}

Init ==
    /\ AppStart
    /\ fsExists \in SUBSET AppFiles
    /\ fn = [op |-> "none", pc |-> "idle"]

Next ==
    \/ PlainRun
    \/ ScriptRerun
    \/ SelectMethod
    \/ EnterUrl
    \/ ChooseFile
    \/ TakePhoto
    \/ UploadModel
    \/ PressDetect
    \/ PressClear

Spec == Init /\ [][Next]_vars

(***************************************************************************)
(* Claims about load_model (SpecLoad).                                     *)
(***************************************************************************)
LoadReturned == fn.op = "load_model" /\ fn.pc = "returned"

ExistsChecks == SelectSeq(fn.log, LAMBDA e : e.ev = "exists")

IsCandidateBuild(e) == e.ev = "YOLO" /\ e.path # FallbackWeights

CandidateBuilds == SelectSeq(fn.log, IsCandidateBuild)

\* Index of the earliest candidate that exists and constructs, 0 when there is none.
FirstWorking ==
    LET W == {i \in DOMAIN possible_paths :
                 possible_paths[i] \in fsExists /\ possible_paths[i] \in fn.good}
    IN IF W = {} THEN 0 ELSE CHOOSE i \in W : \A j \in W : i <= j

FallbackBuilt == \E k \in DOMAIN fn.log : fn.log[k].ev = "YOLO" /\ fn.log[k].path = FallbackWeights

\* C4: load_model checks the candidate paths in list order, one at a time, up to
\* and including the earliest one that exists and constructs; it constructs only
\* candidates that exist, each right after its existence check; a failed
\* construction is followed by the next candidate; the handle returned is built
\* from the earliest existing, constructible candidate; the fallback "yolov8n.pt"
\* is constructed if and only if no candidate yielded a handle.
C4_OrderedFirstMatch ==
    LoadReturned =>
        /\ Len(ExistsChecks) = IF FirstWorking = 0 THEN Len(possible_paths) ELSE FirstWorking
        /\ \A k \in DOMAIN ExistsChecks :
              /\ ExistsChecks[k].path = possible_paths[k]
              /\ ExistsChecks[k].ret = (possible_paths[k] \in fsExists)
        /\ \A k \in DOMAIN fn.log :
              IsCandidateBuild(fn.log[k]) =>
                  /\ k > 1
                  /\ fn.log[k - 1] = [ev |-> "exists", path |-> fn.log[k].path, ret |-> TRUE]
                  /\ fn.log[k].path \in fsExists
                  /\ fn.log[k].ok = (fn.log[k].path \in fn.good)
                  /\ (~fn.log[k].ok /\ k + 2 <= Len(fn.log)) =>
                        fn.log[k + 2].ev \in {"exists", "warning_default"}
        /\ Len(CandidateBuilds) =
              Cardinality({k \in DOMAIN ExistsChecks : possible_paths[k] \in fsExists})
        /\ FirstWorking # 0 => fn.ret = Handle(possible_paths[FirstWorking])
        /\ FallbackBuilt <=> FirstWorking = 0
        /\ (FirstWorking = 0 /\ fn.fbOK) => fn.ret = Handle(FallbackWeights)

\* An earlier candidate exists but fails to construct, a later one is used.
C4_Witness ==
    /\ LoadReturned
    /\ possible_paths[1] \in fsExists /\ possible_paths[1] \notin fn.good
    /\ possible_paths[2] \notin fsExists /\ possible_paths[2] \in fn.good
    /\ fn.ret = Handle(possible_paths[3])
    /\ possible_paths[4] \in fsExists /\ possible_paths[4] \in fn.good

(***************************************************************************)
(* Claims about process_image (SpecNorm).                                  *)
(***************************************************************************)
NormReturned == fn.op = "process_image" /\ fn.pc = "returned"

\* The raw detections of an outcome whose traversal does not raise, in the
\* order reported: result by result, box by box.
RECURSIVE RawBoxes(_)
RawBoxes(results) ==
    IF results = <<>>
    THEN <<>>
    ELSE (IF Head(results).boxes = None THEN <<>> ELSE Head(results).boxes.data)
            \o RawBoxes(Tail(results))

NoRaise(outcome) ==
    /\ "results" \in DOMAIN outcome
    /\ \A k \in DOMAIN outcome.results : "raise" \notin DOMAIN outcome.results[k]

ExpectedLabel(i) ==
    IF i \in 0..9
    THEN FOOD_CLASSES[i + 1]
    ELSE IF i \in DOMAIN coco_food_mapping
         THEN coco_food_mapping[i]
         ELSE "Object_" \o ToString(i)

\* C7: every detection of a successful call carries the label of its class id i:
\* the i-th entry of the Class Label Table when 0 <= i < 10 (5 is "Pizza"),
\* else the secondary mapping's name when i is one of its keys, else
\* "Object_<i>"; every i >= 10 yields "Object_<i>".
C7_LabelResolution ==
    (NormReturned /\ fn.model # None /\ NoRaise(fn.outcome)) =>
        LET raw == RawBoxes(fn.outcome.results) IN
        /\ "detections" \in DOMAIN fn.ret
        /\ Len(fn.ret.detections) = Len(raw)
        /\ \A k \in DOMAIN raw :
              LET i == raw[k].cls
                  label == fn.ret.detections[k].class_name IN
              /\ label = ExpectedLabel(i)
              /\ i = 0 => label = "Apple Pie"
              /\ i = 5 => label = "Pizza"
              /\ i = 9 => label = "tacos"
              /\ i >= 10 => label = "Object_" \o ToString(i)
              /\ i = 11 => label = "Object_11"

C7_Witness ==
    /\ NormReturned /\ fn.model # None /\ NoRaise(fn.outcome)
    /\ \E k \in DOMAIN fn.ret.detections : fn.ret.detections[k].class_name = "Object_12"

\* C9: a successful call returns one record per raw detection, in the order the
\* model reported them (result by result, box by box), and total_detections is
\* the length of the sequence; a call whose inference and traversal do not raise
\* is successful.
C9_OrderPreserved ==
    (NormReturned /\ fn.model # None /\ NoRaise(fn.outcome)) =>
        LET raw == RawBoxes(fn.outcome.results) IN
        /\ DOMAIN fn.ret = {"success", "detections", "total_detections"}
        /\ fn.ret.success = TRUE
        /\ Len(fn.ret.detections) = Len(raw)
        /\ \A k \in DOMAIN raw :
              /\ fn.ret.detections[k].bbox = [j \in 1..4 |-> Trunc(raw[k].xyxy[j])]
              /\ fn.ret.detections[k].confidence = Round2(raw[k].conf)
              /\ fn.ret.detections[k].class_name = ClassName(raw[k].cls)
        /\ fn.ret.total_detections = Len(fn.ret.detections)

\* Two results, the first with two different boxes, the second repeating one.
C9_Witness ==
    /\ NormReturned /\ fn.model # None /\ NoRaise(fn.outcome)
    /\ Len(fn.outcome.results) = 2
    /\ fn.ret.total_detections = 3
    /\ fn.ret.detections[1] # fn.ret.detections[2]
    /\ fn.ret.detections[1] = fn.ret.detections[3]

(***************************************************************************)
(* Claims about main() (Spec).                                             *)
(***************************************************************************)
Raises(outcome) ==
    \/ "raise" \in DOMAIN outcome
    \/ /\ "results" \in DOMAIN outcome
       /\ \E k \in DOMAIN outcome.results : "raise" \in DOMAIN outcome.results[k]

\* The message of the exception that the inference call or the traversal raises.
RaisedMessage(outcome) ==
    IF "raise" \in DOMAIN outcome
    THEN outcome.raise
    ELSE LET R == {k \in DOMAIN outcome.results : "raise" \in DOMAIN outcome.results[k]}
         IN outcome.results[CHOOSE k \in R : \A j \in R : k <= j].raise

FetchFailed ==
    /\ run.fetch # <<>>
    /\ "status_code" \in DOMAIN run.fetch[1]
    /\ run.fetch[1].status_code # 200

\* C3: in a run whose URL fetch returns a status other than 200, an error with
\* the status code is shown and process_image is not called, whatever the
\* session state earlier runs left.
C3_FailedFetchNoNormalizer ==
    FetchFailed =>
        /\ \E k \in DOMAIN run.errors :
              run.errors[k] = "Failed to load image from URL (Status: "
                                 \o ToString(run.fetch[1].status_code) \o ")"
        /\ run.calls = <<>>

FallbackFailed ==
    \E k \in DOMAIN run.loadLog :
        /\ run.loadLog[k].ev = "YOLO"
        /\ run.loadLog[k].path = FallbackWeights
        /\ ~run.loadLog[k].ok

\* C6: when the construction of the fallback raises, load_model() returns None;
\* a run of main() that obtains None shows the error and stops before any upload,
\* fetch or inference step; main() never passes None to process_image; after the
\* halted run the script can run again.
C6_NullHandleHalts ==
    /\ FallbackFailed => run.model = None
    /\ (run.pc # "none" /\ run.model = None) =>
          /\ run.pc = "halted"
          /\ run.errors = <<"Failed to load the model. Please check the model file.">>
          /\ run.fetch = <<>> /\ run.calls = <<>>
          /\ rendered = {} /\ uploaded_file = None /\ processed_results = None
          /\ ~rerunPending
          /\ ENABLED PlainRun
    /\ \A k \in DOMAIN run.calls : run.calls[k].model # None

\* A second halted run: the None of the first run comes from the cache.
C6_Witness ==
    /\ run.pc = "halted" /\ run.model = None /\ run.loadLog = <<>>
    /\ cache = [hit |-> TRUE, value |-> None]

\* C8: a call of process_image with a non-null handle invokes the handle exactly
\* once, on the image, whether or not the call succeeds; a run triggered by a
\* press of Detect calls process_image exactly once, any other run never.
C8_OneInferencePerDetect ==
    /\ \A k \in DOMAIN run.calls :
          run.calls[k].model # None => run.calls[k].infer = <<run.calls[k].image>>
    /\ run.detect => (run.pc = "done" /\ Len(run.calls) = 1)
    /\ ~run.detect => run.calls = <<>>

\* Detect pressed on a stored image while the fetch fails, and the inference raises.
C8_Witness ==
    /\ run.detect /\ Len(run.calls) = 1
    /\ "raise" \in DOMAIN run.calls[1].outcome
    /\ run.fetch # <<>> /\ "raise" \in DOMAIN run.fetch[1]

\* C10: processed_results is None from the start and from a Clear Upload on,
\* until the next run in which Detect is pressed; otherwise it is the result of
\* the most recent process_image call since the last clear.
C10_ResultsUntilClear ==
    /\ [](processed_results = sinceClear)
    /\ [][ /\ run'.pc = "rerun" => processed_results' = None
           /\ processed_results' # processed_results =>
                 \/ run'.pc = "rerun"
                 \/ /\ run'.detect /\ Len(run'.calls) = 1
                    /\ processed_results' = run'.calls[1].ret ]_vars

\* A result was stored, cleared, and two runs later it is still None.
C10_Witness ==
    /\ processed_results = None /\ upload_key = 1
    /\ run.pc = "done" /\ ~run.detect /\ "detect" \in rendered
    /\ uploaded_file # None

\* C11: from a Clear Upload on, and until the user enters a URL, chooses a file
\* or takes a photo, the stored uploaded file is None (at the end of the rerun
\* the clear triggers and after every later run), no Detect button is offered
\* and no run calls process_image, for every upload method; upload_key grows by
\* exactly one in a clear run and in no other run.
C11_ClearResetsUpload ==
    /\ [](awaitingImage =>
            /\ uploaded_file = None
            /\ "detect" \notin rendered
            /\ run.calls = <<>>)
    /\ [][ /\ run'.pc = "rerun" => upload_key' = upload_key + 1
           /\ run'.pc # "rerun" => upload_key' = upload_key ]_vars

====
